---- MODULE Spec2Model ----
(***************************************************************************)
(* MysqlPlugin (opentelemetry-plugin-mysql/src/mysql.ts): the wraps the    *)
(* plugin installs on the mysql module's factories and on the query and    *)
(* getConnection methods of the objects they produce, and the life of the  *)
(* spans the query wrapper starts.                                         *)
(*                                                                         *)
(* A method (or factory binding) is modelled by the number of wrapper      *)
(* layers stacked on the driver's original function: every layer on one    *)
(* method is the same closure of the plugin over the same object, each     *)
(* layer's "original" is the stack below it, shimmer.wrap pushes a layer   *)
(* on whatever is installed and shimmer.unwrap pops the installed one.     *)
(* The driver (the original functions, the callbacks it delivers and the   *)
(* events it emits) is the environment: its methods take the arguments     *)
(* that reach them and later call the callback or emit the events.         *)
(***************************************************************************)
EXTENDS Naturals, Sequences, FiniteSets

VARIABLES enabled, moduleExports, objs, spans, calls, acqs, retained

vars == <<enabled, moduleExports, objs, spans, calls, acqs, retained>>

\* ---------------------------------------------------------------- bounds
\* patch() calls outstanding on one factory binding (wrapper layers)
MaxLayers == 2
\* objects the application creates through the module's factories
MaxObjects == 1
\* connections a pool or cluster creates to hand out
MaxPooled == 1
\* query calls made by the application
MaxCalls == 2
\* getConnection calls made by the application
MaxAcqs == 2
\* positional arguments of a call whose shape is drawn freely
MaxArity == 4
\* calls made with a freely drawn shape
MaxShapedCalls == 1

\* ---------------------------------------------------------------- values
FactoryNames == {"createConnection", "createPool", "createPoolCluster"}

\* A JavaScript value passed as an argument. A function value carries the
\* shims wrapped around the application's callback, outermost wrap last.
Text == [t |-> "text", shims |-> <<>>]
ValuesArray == [t |-> "array", shims |-> <<>>]
Scalar == [t |-> "scalar", shims |-> <<>>]
Callback == [t |-> "function", shims |-> <<>>]
Undefined == [t |-> "undefined", shims |-> <<>>]

\* arguments[i] of the source is Arg(arguments, i + 1)
Arg(arguments, i) == IF i <= Len(arguments) THEN arguments[i] ELSE Undefined

IsFunction(v) == v.t = "function"

Truthy(v) == v.t # "undefined"

\* Argument lists the application calls query with
QueryArgs ==
  { <<Text>>, <<Text, Callback>>, <<Text, ValuesArray, Callback>>, <<Text, ValuesArray>> }

\* Argument lists the application calls getConnection with
GetConnectionArgs ==
  { <<Callback>>, <<Scalar, Callback>>, <<Scalar>> }

\* Configurations the application hands to a factory
FactoryArgs == {"mysql://uri", "config"}

\* The error argument of a callback: a MysqlError, or null (falsy)
Null == [code |-> "", message |-> ""]
Errors ==
  { [code |-> "PROTOCOL_CONNECTION_LOST", message |-> "connection lost"],
    [code |-> "ER_PARSE_ERROR", message |-> "syntax error"] }

\* err.message
Message(err) == err.message

\* CanonicalCode.OK and CanonicalCode.UNKNOWN
OK == "OK"
UNKNOWN == "UNKNOWN"

\* ------------------------------------------------------------- shimmer
\* shimmer.wrap(nodule, name, wrapper): installs wrapper(nodule[name]) on
\* top of whatever nodule[name] is; it does not look for an earlier wrap.
ShimmerWrap(layers) == layers + 1

\* shimmer.unwrap(nodule, name): restores the installed wrapper's original;
\* on a function that is not wrapped it logs and changes nothing.
ShimmerUnwrap(layers) == IF layers > 0 THEN layers - 1 ELSE layers

\* isWrapped(func) of @opentelemetry/core: the installed function is a wrapper
IsWrapped(layers) == layers > 0

\* ------------------------------------------------------------- objects
HasQuery(kind) == kind \in {"connection", "pool", "pooled"}
HasGetConnection(kind) == kind \in {"pool", "cluster"}

\* What the driver's original factory returns: an object without wraps
OriginalCreate(id, kind, arguments) ==
  [id |-> id, kind |-> kind, config |-> arguments, query |-> 0, getConnection |-> 0,
   factory |-> "", calledWith |-> ""]

\* MysqlPlugin.patch()
patch ==
  /\ enabled' = TRUE
  /\ moduleExports' = [f \in FactoryNames |-> ShimmerWrap(moduleExports[f])]

\* MysqlPlugin.unpatch()
unpatch ==
  /\ enabled' = FALSE
  /\ moduleExports' = [f \in FactoryNames |-> ShimmerUnwrap(moduleExports[f])]

\* The function createConnection returned by _patchCreateConnection, after
\* its original returned originalResult
PatchCreateConnection(originalResult) ==
  [originalResult EXCEPT !.query = ShimmerWrap(@)]

\* The function createPool returned by _patchCreatePool
PatchCreatePool_QueryOnly(pool) ==
  [pool EXCEPT !.query = ShimmerWrap(@)]

PatchCreatePool(pool) ==
  [pool EXCEPT !.query = ShimmerWrap(@), !.getConnection = ShimmerWrap(@)]

\* The function createPool returned by _patchCreatePoolCluster
PatchCreatePoolCluster(cluster) ==
  [cluster EXCEPT !.getConnection = ShimmerWrap(@)]

KindOf(f) ==
  CASE f = "createConnection" -> "connection"
    [] f = "createPool" -> "pool"
    [] f = "createPoolCluster" -> "cluster"

\* Calling the function installed at depth k of the module's binding f:
\* depth 0 is the driver's factory, depth k > 0 is a wrapper whose original
\* is depth k - 1. Every wrapper passes its arguments on and wraps the result.
RECURSIVE CallFactory(_, _, _, _)
CallFactory(f, k, id, arguments) ==
  IF k = 0 THEN OriginalCreate(id, KindOf(f), arguments)
  ELSE LET originalResult == CallFactory(f, k - 1, id, arguments)
       IN CASE f = "createConnection" -> PatchCreateConnection(originalResult)
            [] f = "createPool" -> PatchCreatePool(originalResult)
            [] f = "createPoolCluster" -> PatchCreatePoolCluster(originalResult)

\* ---------------------------------------------------------------- spans
\* A span as the tracer hands it out: the SDK's Span starts with status OK
NewSpan(call, values) ==
  [call |-> call, status |-> [code |-> OK, message |-> ""], ends |-> 0,
   endStatus |-> [code |-> "", message |-> ""], values |-> values,
   startedEnabled |-> enabled]

\* thisPlugin._tracer.startSpan(...)
StartSpan(spns, call, values) == Append(spns, NewSpan(call, values))

\* span.setStatus(status)
SetStatus(spns, span, status) == [spns EXCEPT ![span].status = status]

\* span.end(): counts the calls and keeps the status the span ended with
End(spns, span) ==
  [spns EXCEPT ![span].ends = @ + 1,
               ![span].endStatus = IF spns[span].ends = 0 THEN spns[span].status ELSE @]

\* The bind values _patchQuery hands to getDbStatement
QueryValues(arguments) ==
  IF Arg(arguments, 2).t = "array" THEN [form |-> "second", of |-> Arg(arguments, 2).t]
  ELSE IF Truthy(Arg(arguments, 3)) THEN [form |-> "[second]", of |-> Arg(arguments, 2).t]
  ELSE [form |-> "undefined", of |-> "undefined"]

\* shimmer.wrap(arguments, i, thisPlugin._patchCallbackQuery(span)): the
\* callback becomes the shim of span around it
PatchCallbackQuery(span, originalCallback) ==
  [originalCallback EXCEPT !.shims = Append(@, span)]

\* The listeners _patchQuery attaches to the stream of a one-argument call
StreamListeners_ErrorOnly(span) ==
  << [event |-> "error", span |-> span] >>

StreamListeners(span) ==
  << [event |-> "error", span |-> span], [event |-> "end", span |-> span] >>

\* shimmer.unwrap(connection, 'query') in the wrapper that finds the plugin
\* disabled
QueryUnwrap_Skipped(layers) == layers

QueryUnwrap(layers) == ShimmerUnwrap(layers)

\* !thisPlugin._enabled, as the query wrapper reads it on entry
QueryDisabled_Ignored == FALSE

QueryDisabled == ~enabled

\* arguments.length === 1: the call the wrapper treats as a streaming one
IsStreamingCall_NoCallback(arguments) ==
  ~(IsFunction(Arg(arguments, 2)) \/ IsFunction(Arg(arguments, 3)))

IsStreamingCall(arguments) == Len(arguments) = 1

\* Calling the function installed at depth k of an object's query method
\* with arguments, as call number c: depth 0 is the driver's query, which
\* takes the arguments as they reach it and returns its Query object.
RECURSIVE PatchQuery(_, _, _, _, _)
PatchQuery(k, c, layers, spns, arguments) ==
  IF k = 0
  THEN [layers |-> layers, spans |-> spns, arguments |-> arguments,
        listeners |-> <<>>, result |-> c]
  ELSE IF QueryDisabled
  THEN PatchQuery(k - 1, c, QueryUnwrap(layers), spns, arguments)
  ELSE LET span == Len(spns) + 1
           started == StartSpan(spns, c, QueryValues(arguments))
       IN IF IsStreamingCall(arguments)
          THEN LET streamableQuery == PatchQuery(k - 1, c, layers, started, arguments)
               IN [streamableQuery EXCEPT !.listeners = @ \o StreamListeners(span)]
          ELSE IF IsFunction(Arg(arguments, 2))
          THEN PatchQuery(k - 1, c, layers, started,
                          [arguments EXCEPT ![2] = PatchCallbackQuery(span, @)])
          ELSE IF IsFunction(Arg(arguments, 3))
          THEN PatchQuery(k - 1, c, layers, started,
                          [arguments EXCEPT ![3] = PatchCallbackQuery(span, @)])
          ELSE PatchQuery(k - 1, c, layers, started, arguments)

\* The body of the shim _patchCallbackQuery(span) returns, before it calls
\* the callback it wraps: err is arguments[0]
CallbackQueryShim_SkipsWhenDisabled(span, arguments, spns) ==
  IF ~enabled THEN spns
  ELSE End(SetStatus(spns, span,
                     IF Len(arguments) >= 1 /\ arguments[1] # Null
                     THEN [code |-> UNKNOWN, message |-> Message(arguments[1])]
                     ELSE [code |-> OK, message |-> ""]), span)

CallbackQueryShim_LatestSpan(span, arguments, spns) ==
  LET err == IF Len(arguments) >= 1 THEN arguments[1] ELSE Null
      latest == Len(spns)
  IN IF err # Null
     THEN End(SetStatus(spns, latest, [code |-> UNKNOWN, message |-> Message(err)]), latest)
     ELSE End(SetStatus(spns, latest, [code |-> OK, message |-> ""]), latest)

CallbackQueryShim(span, arguments, spns) ==
  LET err == IF Len(arguments) >= 1 THEN arguments[1] ELSE Null
  IN IF err # Null
     THEN End(SetStatus(spns, span, [code |-> UNKNOWN, message |-> Message(err)]), span)
     ELSE End(SetStatus(spns, span, [code |-> OK, message |-> ""]), span)

\* originalCallback(...arguments) in the shim of a query callback
ForwardQueryArguments_ErrorSwallowed(arguments) ==
  IF Len(arguments) >= 1 THEN [arguments EXCEPT ![1] = Null] ELSE arguments

ForwardQueryArguments(arguments) == arguments

\* The driver calls the callback it was given: the i-th shim runs, then the
\* one it wraps, and last (i = 0) the application's callback, which receives
\* arguments and sees the spans as they are then (seen).
RECURSIVE InvokeQueryCallback_CallbackFirst(_, _, _, _)
InvokeQueryCallback_CallbackFirst(fn, i, arguments, spns) ==
  IF i = 0 THEN [spans |-> spns, received |-> arguments, seen |-> spns]
  ELSE LET inner == InvokeQueryCallback_CallbackFirst(
                      fn, i - 1, ForwardQueryArguments(arguments), spns)
       IN [inner EXCEPT !.spans = CallbackQueryShim(fn.shims[i], arguments, @)]

RECURSIVE InvokeQueryCallback(_, _, _, _)
InvokeQueryCallback(fn, i, arguments, spns) ==
  IF i = 0 THEN [spans |-> spns, received |-> arguments, seen |-> spns]
  ELSE InvokeQueryCallback(fn, i - 1, ForwardQueryArguments(arguments),
                           CallbackQueryShim(fn.shims[i], arguments, spns))

\* The listener _patchQuery attaches for the stream's 'error' event
OnError_EndsSpan(span, err, spns) ==
  End(SetStatus(spns, span, [code |-> UNKNOWN, message |-> Message(err)]), span)

OnError(span, err, spns) ==
  SetStatus(spns, span, [code |-> UNKNOWN, message |-> Message(err)])

\* The listener _patchQuery attaches for the stream's 'end' event
OnEnd(span, spns) == End(spns, span)

\* The stream emits event: its listeners run in the order they were attached
RECURSIVE Emit(_, _, _, _, _)
Emit(listeners, i, event, err, spns) ==
  IF i > Len(listeners) THEN spns
  ELSE Emit(listeners, i + 1, event, err,
            IF listeners[i].event # event THEN spns
            ELSE IF event = "error" THEN OnError(listeners[i].span, err, spns)
            ELSE OnEnd(listeners[i].span, spns))

\* ------------------------------------------------------- getConnection
\* thisPlugin._getConnectionCallbackPatchFn(cb): the callback becomes the
\* acquisition shim around it (an acquisition shim captures no span)
GetConnectionCallbackPatchFn_PassThrough(cb) == cb

GetConnectionCallbackPatchFn(cb) == [cb EXCEPT !.shims = Append(@, 0)]

\* shimmer.unwrap(pool, 'getConnection') in the wrapper that finds the
\* plugin disabled
GetConnectionUnwrap_Skipped(layers) == layers

GetConnectionUnwrap(layers) == ShimmerUnwrap(layers)

\* Calling the function installed at depth k of a pool's or cluster's
\* getConnection with arguments; depth 0 is the driver's getConnection.
RECURSIVE PatchGetConnection(_, _, _)
PatchGetConnection(k, layers, arguments) ==
  IF k = 0 THEN [layers |-> layers, arguments |-> arguments]
  ELSE IF ~enabled
  THEN PatchGetConnection(k - 1, GetConnectionUnwrap(layers), arguments)
  ELSE IF Len(arguments) = 1 /\ IsFunction(Arg(arguments, 1))
  THEN PatchGetConnection(k - 1, layers,
                          <<GetConnectionCallbackPatchFn(arguments[1])>>)
  ELSE IF Len(arguments) = 2 /\ IsFunction(Arg(arguments, 2))
  THEN PatchGetConnection(k - 1, layers,
                          <<arguments[1], GetConnectionCallbackPatchFn(arguments[2])>>)
  ELSE IF Len(arguments) = 3 /\ IsFunction(Arg(arguments, 3))
  THEN PatchGetConnection(k - 1, layers,
                          <<arguments[1], arguments[2],
                            GetConnectionCallbackPatchFn(arguments[3])>>)
  ELSE PatchGetConnection(k - 1, layers, arguments)

\* The body of the acquisition shim before it calls cb: arguments is
\* <<err, connection>>, connection 0 when the driver delivered none
GetConnectionShim_NoMarkerCheck(arguments, os) ==
  IF arguments[2] # 0
  THEN [os EXCEPT ![arguments[2]].query = ShimmerWrap(@)]
  ELSE os

GetConnectionShim(arguments, os) ==
  IF arguments[2] # 0
  THEN IF ~IsWrapped(os[arguments[2]].query)
       THEN [os EXCEPT ![arguments[2]].query = ShimmerWrap(@)]
       ELSE os
  ELSE os

\* cb(...arguments) in the acquisition shim
ForwardAcquisitionArguments(arguments) == arguments

\* The driver calls the acquisition callback it was given: the i-th shim
\* runs, then the one it wraps, and last the application's callback, which
\* sees the objects as they are then (seen).
RECURSIVE InvokeAcquisitionCallback(_, _, _, _)
InvokeAcquisitionCallback(fn, i, arguments, os) ==
  IF i = 0 THEN [objs |-> os, received |-> arguments, seen |-> os]
  ELSE InvokeAcquisitionCallback(fn, i - 1, ForwardAcquisitionArguments(arguments),
                                 GetConnectionShim(arguments, os))

\* ---------------------------------------------------------- the driver
\* The position of the callback the driver will call: the first function
\* among the first three arguments (from position first on), 0 if none
DriverCallback(arguments, first) ==
  IF \E i \in first..3 : IsFunction(Arg(arguments, i))
  THEN CHOOSE i \in first..3 :
         /\ IsFunction(Arg(arguments, i))
         /\ \A j \in first..(i - 1) : ~IsFunction(Arg(arguments, j))
  ELSE 0

\* What the driver passes to a query callback: (null, results, fields) or (err)
QueryCallbackArgs == {<<Null, "results", "fields">>} \cup {<<e>> : e \in Errors}

\* The application holds no reference to a factory of its own
NoReference == [factory |-> "", layers |-> 0, madeDisabled |-> {}]

Objects == 1..Len(objs)
Pooled == {o \in Objects : objs[o].kind = "pooled"}

\* ---------------------------------------------------------- the state
Init ==
  /\ enabled = FALSE
  /\ moduleExports = [f \in FactoryNames |-> 0]
  /\ objs = <<>>
  /\ spans = <<>>
  /\ calls = <<>>
  /\ acqs = <<>>
  /\ retained = NoReference

\* plugin.enable(): BasePlugin.enable calls patch()
Activate ==
  /\ \A f \in FactoryNames : moduleExports[f] < MaxLayers
  /\ patch
  /\ UNCHANGED <<objs, spans, calls, acqs, retained>>

\* plugin.disable(): BasePlugin.disable calls unpatch()
Deactivate ==
  /\ unpatch
  /\ UNCHANGED <<objs, spans, calls, acqs, retained>>

\* The application calls mysql.createConnection / createPool /
\* createPoolCluster through the module's binding
Create(f, arguments) ==
  /\ Cardinality(Objects \ Pooled) < MaxObjects
  /\ LET made == CallFactory(f, moduleExports[f], Len(objs) + 1, arguments)
     IN objs' = Append(objs, [made EXCEPT !.factory = f, !.calledWith = arguments])
  /\ UNCHANGED <<enabled, moduleExports, spans, calls, acqs, retained>>

\* The application calls objs[o].query(...arguments)
Query(o, arguments) ==
  /\ HasQuery(objs[o].kind)
  /\ LET c == Len(calls) + 1
         r == PatchQuery(objs[o].query, c, objs[o].query, spans, arguments)
     IN /\ objs' = [objs EXCEPT ![o].query = r.layers]
        /\ spans' = r.spans
        /\ calls' = Append(calls,
             [object |-> o, arguments |-> arguments, enabledAtCall |-> enabled,
              installed |-> objs[o].query, received |-> r.arguments,
              listeners |-> r.listeners, result |-> r.result,
              delivered |-> <<>>, cbCalls |-> 0, cbReceived |-> <<>>,
              cbSawEnded |-> FALSE,
              errorEvent |-> Null, endEvents |-> 0, errorBeforeEnd |-> Null,
              enabledAtCompletion |-> enabled])
  /\ UNCHANGED <<enabled, moduleExports, acqs, retained>>

\* The driver calls the callback a query call handed it, once; cbSawEnded
\* is what the application's callback finds: every span of its call ended
\* and carrying the status of this delivery
DeliverQueryCallback(c, arguments) ==
  /\ calls[c].delivered = <<>>
  /\ DriverCallback(calls[c].received, 2) # 0
  /\ LET fn == calls[c].received[DriverCallback(calls[c].received, 2)]
         r == InvokeQueryCallback(fn, Len(fn.shims), arguments, spans)
     IN /\ spans' = r.spans
        /\ calls' = [calls EXCEPT ![c].delivered = arguments,
                                  ![c].cbCalls = @ + 1,
                                  ![c].cbReceived = r.received,
                                  ![c].cbSawEnded =
                                     \A s \in 1..Len(r.seen) :
                                       r.seen[s].call = c =>
                                         /\ r.seen[s].ends = 1
                                         /\ r.seen[s].status.code \in
                                              IF arguments[1] # Null
                                              THEN {UNKNOWN} ELSE {OK},
                                  ![c].enabledAtCompletion = enabled]
  /\ UNCHANGED <<enabled, moduleExports, objs, acqs, retained>>

\* The Query object of a call without a callback emits 'error', at most once
EmitError(c, err) ==
  /\ DriverCallback(calls[c].received, 2) = 0
  /\ calls[c].errorEvent = Null
  /\ spans' = Emit(calls[c].listeners, 1, "error", err, spans)
  /\ calls' = [calls EXCEPT ![c].errorEvent = err]
  /\ UNCHANGED <<enabled, moduleExports, objs, acqs, retained>>

\* The Query object of a call without a callback emits 'end', once
EmitEnd(c) ==
  /\ DriverCallback(calls[c].received, 2) = 0
  /\ calls[c].endEvents = 0
  /\ spans' = Emit(calls[c].listeners, 1, "end", Null, spans)
  /\ calls' = [calls EXCEPT ![c].endEvents = @ + 1,
                            ![c].errorBeforeEnd = calls[c].errorEvent,
                            ![c].enabledAtCompletion = enabled]
  /\ UNCHANGED <<enabled, moduleExports, objs, acqs, retained>>

\* The application calls objs[o].getConnection(...arguments)
GetConnection(o, arguments) ==
  /\ HasGetConnection(objs[o].kind)
  /\ LET r == PatchGetConnection(objs[o].getConnection, objs[o].getConnection, arguments)
     IN /\ objs' = [objs EXCEPT ![o].getConnection = r.layers]
        /\ acqs' = Append(acqs,
             [object |-> o, arguments |-> arguments, enabledAtCall |-> enabled,
              installed |-> objs[o].getConnection, received |-> r.arguments,
              delivered |-> <<>>, cbCalls |-> 0, cbReceived |-> <<>>,
              cbSawWrapped |-> FALSE])
  /\ UNCHANGED <<enabled, moduleExports, spans, calls, retained>>

\* The driver calls the callback an acquisition handed it, once, with
\* (err, undefined) or with (null, connection): a pooled connection it
\* delivered before, or a new one
DeliverConnection(a, err, connection) ==
  /\ acqs[a].delivered = <<>>
  /\ DriverCallback(acqs[a].received, 1) # 0
  /\ \/ err \in Errors /\ connection = 0
     \/ err = Null /\ connection \in Pooled
     \/ err = Null /\ connection = Len(objs) + 1 /\ Cardinality(Pooled) < MaxPooled
  /\ LET fn == acqs[a].received[DriverCallback(acqs[a].received, 1)]
         os == IF connection = Len(objs) + 1
               THEN Append(objs, OriginalCreate(connection, "pooled", "config"))
               ELSE objs
         r == InvokeAcquisitionCallback(fn, Len(fn.shims), <<err, connection>>, os)
     IN /\ objs' = r.objs
        /\ acqs' = [acqs EXCEPT ![a].delivered = <<err, connection>>,
                                ![a].cbCalls = @ + 1,
                                ![a].cbReceived = r.received,
                                ![a].cbSawWrapped =
                                   connection # 0 /\ IsWrapped(r.seen[connection].query)]
  /\ UNCHANGED <<enabled, moduleExports, spans, calls, retained>>

\* The application keeps the function the module's binding f holds now
\* (const create = mysql.createPool): the wrapper layers of that function
\* stay with the reference whatever patch() and unpatch() do to the binding
Retain(f) ==
  /\ retained' = [retained EXCEPT !.factory = f, !.layers = moduleExports[f]]
  /\ retained.factory # f \/ retained.layers # moduleExports[f]
  /\ UNCHANGED <<enabled, moduleExports, objs, spans, calls, acqs>>

\* The application calls the factory through the reference it kept;
\* madeDisabled collects the objects made that way while the plugin was
\* disabled
CreateRetained(arguments) ==
  /\ retained.factory # ""
  /\ Cardinality(Objects \ Pooled) < MaxObjects
  /\ LET id == Len(objs) + 1
         made == CallFactory(retained.factory, retained.layers, id, arguments)
     IN /\ objs' = Append(objs, [made EXCEPT !.factory = retained.factory,
                                             !.calledWith = arguments])
        /\ retained' = [retained EXCEPT !.madeDisabled =
                                          IF enabled THEN @ ELSE @ \cup {id}]
  /\ UNCHANGED <<enabled, moduleExports, spans, calls, acqs>>

\* The whole program: MaxCalls bounds the query and getConnection calls
\* together
Next ==
  \/ Activate
  \/ Deactivate
  \/ \E f \in FactoryNames, arguments \in FactoryArgs : Create(f, arguments)
  \/ \E o \in Objects, arguments \in QueryArgs :
       Len(calls) + Len(acqs) < MaxCalls /\ Query(o, arguments)
  \/ \E c \in 1..Len(calls), arguments \in QueryCallbackArgs :
       DeliverQueryCallback(c, arguments)
  \/ \E c \in 1..Len(calls), err \in Errors : EmitError(c, err)
  \/ \E c \in 1..Len(calls) : EmitEnd(c)
  \/ \E o \in Objects, arguments \in GetConnectionArgs :
       Len(calls) + Len(acqs) < MaxCalls /\ GetConnection(o, arguments)
  \/ \E a \in 1..Len(acqs), err \in Errors \cup {Null}, connection \in 0..(Len(objs) + 1) :
       DeliverConnection(a, err, connection)

Spec == Init /\ [][Next]_vars

\* Pools and clusters handing out their connections: MaxAcqs acquisitions
\* with a callback, and MaxCalls callback queries on the connections
\* acquired
NextPool ==
  \/ Activate
  \/ Deactivate
  \/ \E f \in {"createPool", "createPoolCluster"}, arguments \in FactoryArgs :
       Create(f, arguments)
  \/ \E o \in Objects :
       Len(acqs) < MaxAcqs /\ GetConnection(o, <<Callback>>)
  \/ \E a \in 1..Len(acqs), err \in Errors \cup {Null}, connection \in 0..(Len(objs) + 1) :
       DeliverConnection(a, err, connection)
  \/ \E o \in Pooled :
       Len(calls) < MaxCalls /\ Query(o, <<Text, Callback>>)
  \/ \E c \in 1..Len(calls), arguments \in QueryCallbackArgs :
       DeliverQueryCallback(c, arguments)

SpecPool == Init /\ [][NextPool]_vars

\* Calls of every shape: the application calls getConnection with up to
\* MaxArity selectors and functions, and query with a text followed by up
\* to MaxArity - 1 further values
GetConnectionShapes ==
  UNION { [1..n -> {Scalar, Callback}] : n \in 0..MaxArity }

QueryShapes ==
  { <<Text>> \o rest :
      rest \in UNION { [1..n -> {ValuesArray, Scalar, Callback, Undefined}] :
                         n \in 0..(MaxArity - 1) } }

NextArguments ==
  \/ Activate
  \/ Deactivate
  \/ \E f \in FactoryNames, arguments \in FactoryArgs : Create(f, arguments)
  \/ \E o \in Objects, arguments \in QueryShapes :
       Len(calls) + Len(acqs) < MaxShapedCalls /\ Query(o, arguments)
  \/ \E o \in Objects, arguments \in GetConnectionShapes :
       Len(calls) + Len(acqs) < MaxShapedCalls /\ GetConnection(o, arguments)

SpecArguments == Init /\ [][NextArguments]_vars

\* Factories called through a reference the application kept, with
\* MaxCalls callback queries and MaxAcqs acquisitions with a callback on
\* the objects made and the connections acquired
NextRetained ==
  \/ Activate
  \/ Deactivate
  \/ \E f \in FactoryNames : Retain(f)
  \/ \E arguments \in FactoryArgs : CreateRetained(arguments)
  \/ \E o \in Objects :
       Len(calls) < MaxCalls /\ Query(o, <<Text, Callback>>)
  \/ \E o \in Objects :
       Len(acqs) < MaxAcqs /\ GetConnection(o, <<Callback>>)
  \/ \E a \in 1..Len(acqs), err \in Errors \cup {Null}, connection \in 0..(Len(objs) + 1) :
       DeliverConnection(a, err, connection)

SpecRetained == Init /\ [][NextRetained]_vars

\* ------------------------------------------------------------ properties
\* The spans query call c started
SpansOf(c) == {s \in 1..Len(spans) : spans[s].call = c}

\* The call passed through the query wrapper while the plugin was enabled
Intercepted(c) == calls[c].enabledAtCall /\ calls[c].installed >= 1

\* Shapes C2 and C3: the second or the third argument is a function
CallbackShaped(arguments) ==
  IsFunction(Arg(arguments, 2)) \/ IsFunction(Arg(arguments, 3))

\* The status a query callback's error argument asks for
StatusFor(err) ==
  IF err # Null THEN [code |-> UNKNOWN, message |-> Message(err)]
  ELSE [code |-> OK, message |-> ""]

\* C1: every callback-shaped query call made through the wrapper while the
\* plugin is enabled starts exactly one span; once the driver has called the
\* callback that span has been ended exactly once, with status OK if the
\* error argument was falsy and otherwise UNKNOWN with the error's message.
C1_OneSpanPerCallbackQuery ==
  \A c \in 1..Len(calls) :
    (Intercepted(c) /\ CallbackShaped(calls[c].arguments)) =>
      /\ Cardinality(SpansOf(c)) = 1
      /\ \A s \in SpansOf(c) :
           IF calls[c].delivered = <<>> THEN spans[s].ends = 0
           ELSE /\ spans[s].ends = 1
                /\ spans[s].endStatus = StatusFor(calls[c].delivered[1])

\* C2: a one-argument (streaming) query call made through the wrapper while
\* the plugin is enabled starts exactly one span, and when the stream emitted
\* 'error' and then 'end' the span ended with status UNKNOWN and the error's
\* message.
C2_StreamErrorThenEnd ==
  \A c \in 1..Len(calls) :
    (Intercepted(c) /\ Len(calls[c].arguments) = 1) =>
      /\ Cardinality(SpansOf(c)) = 1
      /\ (calls[c].endEvents = 1 /\ calls[c].errorBeforeEnd # Null) =>
           \A s \in SpansOf(c) :
             /\ spans[s].ends = 1
             /\ spans[s].endStatus = StatusFor(calls[c].errorBeforeEnd)

\* C3: query(text, values) without a callback, made through a single wrapper
\* while the plugin is enabled, starts one span, and that span is ended once
\* the returned stream has emitted 'end'.
C3_ValuesWithoutCallbackEnded ==
  \A c \in 1..Len(calls) :
    (calls[c].enabledAtCall /\ calls[c].installed = 1
       /\ calls[c].arguments = <<Text, ValuesArray>>) =>
      /\ Cardinality(SpansOf(c)) = 1
      /\ calls[c].endEvents = 1 => \A s \in SpansOf(c) : spans[s].ends = 1

DeliveredThroughShim(o) ==
  {a \in 1..Len(acqs) :
     /\ acqs[a].delivered # <<>>
     /\ acqs[a].delivered[2] = o
     /\ acqs[a].enabledAtCall
     /\ acqs[a].installed >= 1}

\* C5: however often a pooled connection is acquired through a wrapped
\* getConnection, its query method carries at most one wrapper, and a query
\* call on it starts at most one span.
C5_PooledConnectionWrappedOnce ==
  /\ \A o \in Pooled : objs[o].query <= 1
  /\ \A c \in 1..Len(calls) :
       calls[c].object \in Pooled => Cardinality(SpansOf(c)) <= 1

\* One pooled connection was delivered twice through a shim, carries one
\* wrapper, and a query on it started one span
C5_Witness ==
  \E o \in Pooled :
    /\ Cardinality(DeliveredThroughShim(o)) >= 2
    /\ objs[o].query = 1
    /\ \E c \in 1..Len(calls) :
         calls[c].object = o /\ Cardinality(SpansOf(c)) = 1

\* C6: every activate() leaves each factory with a single wrapper layer
\* (a second one adds nothing), and a deactivate() when nothing is wrapped
\* and the plugin is disabled changes nothing.
C6_SecondActivateIsNoOp ==
  [][ /\ Activate => \A f \in FactoryNames : moduleExports'[f] = 1
      /\ (Deactivate /\ ~enabled /\ \A f \in FactoryNames : ~IsWrapped(moduleExports[f]))
           => UNCHANGED vars
    ]_vars

\* C7: each time the driver calls the callback of a query or of an
\* acquisition, the application's callback is called exactly once, with the
\* arguments the driver passed, in the same order.
C7_CallbackArgumentsUnchanged ==
  /\ \A c \in 1..Len(calls) :
       IF calls[c].delivered = <<>> THEN calls[c].cbCalls = 0
       ELSE calls[c].cbCalls = 1 /\ calls[c].cbReceived = calls[c].delivered
  /\ \A a \in 1..Len(acqs) :
       IF acqs[a].delivered = <<>> THEN acqs[a].cbCalls = 0
       ELSE acqs[a].cbCalls = 1 /\ acqs[a].cbReceived = acqs[a].delivered

\* Scenario B: a query's shim was called with the error "connection lost":
\* the span ended UNKNOWN with that message and the application's callback
\* received the error; and an acquisition's shim delivered a connection
C7_Witness ==
  /\ \E c \in 1..Len(calls) :
       /\ Intercepted(c)
       /\ calls[c].delivered \in {<<e>> : e \in Errors}
       /\ Message(calls[c].delivered[1]) = "connection lost"
       /\ calls[c].cbReceived = calls[c].delivered
       /\ SpansOf(c) # {}
       /\ \A s \in SpansOf(c) :
            spans[s].endStatus = [code |-> UNKNOWN, message |-> "connection lost"]
  /\ \E a \in 1..Len(acqs) :
       /\ acqs[a].enabledAtCall
       /\ acqs[a].installed >= 1
       /\ acqs[a].delivered # <<>>
       /\ acqs[a].delivered[2] # 0
       /\ acqs[a].cbReceived = acqs[a].delivered

\* C8: a call of a factory binding hands the driver's factory the
\* arguments it was called with and returns the object that factory made,
\* with one wrap per wrapper layer of the binding on query (connection,
\* pool) and on getConnection (pool, cluster) and on nothing else.
C8_FactoriesWrapAndForward ==
  [][ (Len(objs') = Len(objs) + 1 /\ objs'[Len(objs')].factory \in FactoryNames) =>
        LET o == objs'[Len(objs')]
            f == o.factory
        IN /\ o.id = Len(objs')
           /\ o.config = o.calledWith
           /\ o.kind = KindOf(f)
           /\ o.query =
                IF f \in {"createConnection", "createPool"} THEN moduleExports[f] ELSE 0
           /\ o.getConnection =
                IF f \in {"createPool", "createPoolCluster"} THEN moduleExports[f] ELSE 0
    ]_vars

\* A pool made by the wrapped createPool: query and getConnection wrapped
C8_Witness ==
  \E o \in Objects :
    /\ objs[o].factory = "createPool"
    /\ objs[o].config = "mysql://uri"
    /\ objs[o].query = 1
    /\ objs[o].getConnection = 1

\* The call has come to its end: its callback was called, or it is a
\* one-argument call whose stream emitted 'end'
Completed(c) ==
  \/ calls[c].delivered # <<>>
  \/ Len(calls[c].arguments) = 1 /\ calls[c].endEvents = 1

\* C9: a span started by a callback-shaped or one-argument query call is
\* ended exactly once, with its status, when the callback or the 'end'
\* event arrives after deactivate(), and the application's callback is
\* called.
C9_DeactivationKeepsOpenSpans ==
  \A c \in 1..Len(calls) :
    (SpansOf(c) # {} /\ Completed(c) /\ ~calls[c].enabledAtCompletion) =>
      /\ \A s \in SpansOf(c) :
           /\ spans[s].ends = 1
           /\ spans[s].endStatus =
                IF calls[c].delivered # <<>> THEN StatusFor(calls[c].delivered[1])
                ELSE StatusFor(calls[c].errorBeforeEnd)
      /\ calls[c].delivered # <<>> => calls[c].cbCalls = 1

\* A callback query and a streaming query both started a span, and both
\* came to their end after deactivate()
C9_Witness ==
  /\ \E c \in 1..Len(calls) :
       /\ SpansOf(c) # {}
       /\ calls[c].delivered # <<>>
       /\ ~calls[c].enabledAtCompletion
  /\ \E c \in 1..Len(calls) :
       /\ SpansOf(c) # {}
       /\ Len(calls[c].arguments) = 1
       /\ calls[c].endEvents = 1
       /\ ~calls[c].enabledAtCompletion

\* C10: deactivate() sets the flag to false, leaves every factory binding
\* unwrapped and changes nothing else, and a factory called through the
\* module while the plugin is disabled returns an object without wraps.
C10_DeactivateRestoresFactories ==
  [][ /\ Deactivate =>
           /\ enabled' = FALSE
           /\ \A f \in FactoryNames : moduleExports'[f] = 0
           /\ UNCHANGED <<objs, spans, calls, acqs>>
      /\ (Len(objs') = Len(objs) + 1
           /\ objs'[Len(objs')].factory \in FactoryNames
           /\ ~enabled) =>
           /\ objs'[Len(objs')].query = 0
           /\ objs'[Len(objs')].getConnection = 0
    ]_vars

\* C11: a one-argument (streaming) query call made through the wrapper while
\* the plugin is enabled, whose stream emitted 'end' with no 'error' before
\* it: every span the call started was ended by that 'end', with the
\* success status (OK, no message).
C11_StreamEndsWithSuccess ==
  \A c \in 1..Len(calls) :
    (Intercepted(c) /\ Len(calls[c].arguments) = 1
       /\ calls[c].endEvents = 1 /\ calls[c].errorBeforeEnd = Null) =>
      /\ SpansOf(c) # {}
      /\ \A s \in SpansOf(c) :
           /\ spans[s].ends = 1
           /\ spans[s].endStatus = [code |-> OK, message |-> ""]

\* A stream that ended without an error event, and one whose error event
\* came only after its 'end'
C11_Witness ==
  /\ \E c \in 1..Len(calls) :
        /\ Intercepted(c) /\ Len(calls[c].arguments) = 1
        /\ calls[c].endEvents = 1 /\ calls[c].errorEvent = Null
        /\ \E s \in SpansOf(c) : spans[s].ends = 1
  /\ \E c \in 1..Len(calls) :
        /\ Intercepted(c) /\ Len(calls[c].arguments) = 1
        /\ calls[c].endEvents = 1 /\ calls[c].errorBeforeEnd = Null
        /\ calls[c].errorEvent # Null

\* C12: no span is ended more than once. For a one-argument (streaming)
\* call made through the wrapper while the plugin is enabled: as long as
\* the stream has not emitted 'end' its spans are open, an 'error' emitted
\* so far having only set their status to UNKNOWN with the error's message;
\* once 'end' has been emitted each of its spans has been ended exactly
\* once, whether 'error' came before 'end', after it, or not at all.
C12_EndedAtMostOnce ==
  /\ \A s \in 1..Len(spans) : spans[s].ends <= 1
  /\ \A c \in 1..Len(calls) :
       (Intercepted(c) /\ Len(calls[c].arguments) = 1) =>
         \A s \in SpansOf(c) :
           IF calls[c].endEvents = 0
           THEN /\ spans[s].ends = 0
                /\ calls[c].errorEvent # Null =>
                     spans[s].status = StatusFor(calls[c].errorEvent)
           ELSE spans[s].ends = 1

\* One stream has emitted 'error' alone and its span is open with the
\* error's status; another emitted 'end' and then 'error' and was ended once
C12_Witness ==
  /\ \E c \in 1..Len(calls), s \in 1..Len(spans) :
        /\ Intercepted(c) /\ Len(calls[c].arguments) = 1 /\ spans[s].call = c
        /\ calls[c].errorEvent # Null /\ calls[c].endEvents = 0
        /\ spans[s].ends = 0 /\ spans[s].status.code = UNKNOWN
  /\ \E c \in 1..Len(calls), s \in 1..Len(spans) :
        /\ Intercepted(c) /\ Len(calls[c].arguments) = 1 /\ spans[s].call = c
        /\ calls[c].endEvents = 1 /\ calls[c].errorBeforeEnd = Null
        /\ calls[c].errorEvent # Null
        /\ spans[s].ends = 1

\* C13: a query call with two or more arguments and no function in the
\* second or third position, made through the wrapper while the plugin is
\* enabled, starts a span, reaches the driver's query with the arguments it
\* was called with (no shim) and gets no stream listener, and the spans it
\* started are open in every state that follows, whatever events the
\* driver's Query object emits.
C13_NoCallbackNoStreamNeverEnded ==
  \A c \in 1..Len(calls) :
    (Intercepted(c) /\ Len(calls[c].arguments) >= 2
       /\ ~CallbackShaped(calls[c].arguments)) =>
      /\ SpansOf(c) # {}
      /\ calls[c].received = calls[c].arguments
      /\ calls[c].listeners = <<>>
      /\ \A s \in SpansOf(c) : spans[s].ends = 0

\* Such a call after its Query object has emitted both 'error' and 'end'
C13_Witness ==
  \E c \in 1..Len(calls) :
    /\ Intercepted(c) /\ calls[c].arguments = <<Text, ValuesArray>>
    /\ calls[c].errorEvent # Null /\ calls[c].endEvents = 1
    /\ \E s \in SpansOf(c) : spans[s].ends = 0

\* The acquisition passed through the getConnection wrapper while the
\* plugin was enabled
InterceptedAcquisition(a) == acqs[a].enabledAtCall /\ acqs[a].installed >= 1

\* C14: a getConnection call made through the wrapper while the plugin is
\* enabled, with one, two or three arguments the last of which is a
\* function, reaches the driver's getConnection with that last argument
\* replaced by a shim around it and the arguments before it unchanged in
\* their positions; with any other arguments (the last not a function, none
\* at all, more than three) it reaches the driver with the very arguments
\* of the call.
C14_OnlyLastFunctionShimmed ==
  \A a \in 1..Len(acqs) :
    InterceptedAcquisition(a) =>
      LET arguments == acqs[a].arguments
          received == acqs[a].received
          n == Len(arguments)
      IN IF n \in 1..3 /\ IsFunction(arguments[n])
         THEN /\ Len(received) = n
              /\ \A i \in 1..(n - 1) : received[i] = arguments[i]
              /\ IsFunction(received[n])
              /\ received[n].shims # <<>>
              /\ [received[n] EXCEPT !.shims = <<>>] = arguments[n]
         ELSE received = arguments

\* A three-argument acquisition whose selectors reached the driver as given
\* and whose callback reached it inside a shim
C14_Witness ==
  \E a \in 1..Len(acqs) :
    /\ InterceptedAcquisition(a)
    /\ acqs[a].arguments = <<Scalar, Scalar, Callback>>
    /\ acqs[a].received[1] = Scalar /\ acqs[a].received[2] = Scalar
    /\ acqs[a].received[3].shims # <<>>

\* C18: the bind values of every span started by a query call made through
\* the wrapper while the plugin is enabled are the second argument when it
\* is an array, otherwise a one-element list of the second argument when a
\* truthy third argument is present, otherwise none; query(text, callback)
\* gets none; and a callback is never among the bind values.
C18_BindValues ==
  \A c \in 1..Len(calls) :
    Intercepted(c) =>
      \A s \in SpansOf(c) :
        LET arguments == calls[c].arguments
            second == Arg(arguments, 2)
        IN /\ spans[s].values =
                IF second.t = "array" THEN [form |-> "second", of |-> "array"]
                ELSE IF Truthy(Arg(arguments, 3))
                THEN [form |-> "[second]", of |-> second.t]
                ELSE [form |-> "undefined", of |-> "undefined"]
           /\ arguments = <<Text, Callback>> => spans[s].values.form = "undefined"
           /\ spans[s].values.of # "function"

\* C15: queries in flight together are independent. In every step, a span
\* changes only if the record of the call that started it changes (the
\* completion of one call neither ends nor restatuses the span of
\* another), and after the step every span of a callback-shaped call made
\* through the wrapper whose callback has been delivered has been ended
\* exactly once with the status its own callback's error argument asks for.
C15_InFlightQueriesIndependent ==
  [][ \A s \in 1..Len(spans) :
        LET c == spans[s].call
        IN /\ calls'[c] = calls[c] => spans'[s] = spans[s]
           /\ (CallbackShaped(calls[c].arguments) /\ calls'[c].delivered # <<>>) =>
                /\ spans'[s].ends = 1
                /\ spans'[s].status = StatusFor(calls'[c].delivered[1])
                /\ spans'[s].endStatus = StatusFor(calls'[c].delivered[1]) ]_vars

\* Two callback queries outstanding on one object: the later one has
\* completed with an error, the earlier one is still open and untouched
C15_Witness ==
  \E c1, c2 \in 1..Len(calls) :
    /\ c1 < c2 /\ calls[c1].object = calls[c2].object
    /\ Intercepted(c1) /\ CallbackShaped(calls[c1].arguments)
    /\ Intercepted(c2) /\ CallbackShaped(calls[c2].arguments)
    /\ calls[c1].delivered = <<>>
    /\ calls[c2].delivered # <<>> /\ calls[c2].delivered[1] # Null
    /\ \E s \in SpansOf(c1) :
          spans[s].ends = 0 /\ spans[s].status = [code |-> OK, message |-> ""]
    /\ \E s \in SpansOf(c2) :
          spans[s].ends = 1 /\ spans[s].endStatus.code = UNKNOWN

\* The driver was handed an acquisition shim in place of the callback
ShimmedAcquisition(a) ==
  \E i \in 1..Len(acqs[a].received) : acqs[a].received[i].shims # <<>>

\* C16: when the application's callback of a callback-shaped query made
\* through the wrapper runs, every span of its call has already been ended
\* with its status set; when the application's callback of an acquisition
\* that went through a shim runs with a connection, that connection's query
\* is already wrapped.
C16_ShimsActBeforeCallback ==
  /\ \A c \in 1..Len(calls) :
       (Intercepted(c) /\ CallbackShaped(calls[c].arguments)
          /\ calls[c].cbCalls >= 1) => calls[c].cbSawEnded
  /\ \A a \in 1..Len(acqs) :
       (ShimmedAcquisition(a) /\ acqs[a].cbCalls >= 1 /\ acqs[a].delivered[2] # 0) =>
         acqs[a].cbSawWrapped

\* An acquisition's callback has run with a connection, and the callback
\* of a query made on that connection has run after its span was ended
C16_Witness ==
  \E a \in 1..Len(acqs), c \in 1..Len(calls) :
    /\ ShimmedAcquisition(a) /\ acqs[a].cbCalls = 1
    /\ acqs[a].delivered[2] # 0 /\ acqs[a].cbSawWrapped
    /\ calls[c].object = acqs[a].delivered[2]
    /\ Intercepted(c) /\ CallbackShaped(calls[c].arguments)
    /\ calls[c].cbCalls = 1 /\ calls[c].cbSawEnded
    /\ \E s \in SpansOf(c) : spans[s].ends = 1

\* A getConnection call reached the wrapper of pool or cluster o while the
\* plugin was disabled, so the wrapper removed itself
SelfHealed(o) ==
  \E a \in 1..Len(acqs) :
    acqs[a].object = o /\ ~acqs[a].enabledAtCall /\ acqs[a].installed >= 1

\* C17: once the getConnection wrapper of a pool or cluster has removed
\* itself in a call made while the plugin was disabled, that object's
\* getConnection carries no wrap in any later state, whatever activations,
\* acquisitions and queries follow, and every later acquisition on it
\* reaches the driver with its arguments as given.
C17_SelfHealNeverReactivates ==
  \A o \in Objects :
    SelfHealed(o) =>
      /\ objs[o].getConnection = 0
      /\ \A a, b \in 1..Len(acqs) :
           (a < b /\ acqs[a].object = o /\ acqs[b].object = o
              /\ ~acqs[a].enabledAtCall /\ acqs[a].installed >= 1) =>
             /\ acqs[b].installed = 0
             /\ acqs[b].received = acqs[b].arguments

\* A pool or cluster whose wrapper removed itself, and on which, after the
\* plugin was activated again, an acquisition with a callback went
\* straight to the driver
C17_Witness ==
  \E a, b \in 1..Len(acqs) :
    /\ a < b /\ acqs[a].object = acqs[b].object
    /\ ~acqs[a].enabledAtCall /\ acqs[a].installed >= 1
    /\ acqs[b].enabledAtCall /\ acqs[b].installed = 0
    /\ acqs[b].arguments = <<Callback>> /\ acqs[b].received = <<Callback>>
    /\ enabled /\ \A f \in FactoryNames : moduleExports[f] >= 1

\* C19: no span is started while the enabled flag is false: every span was
\* started with the flag true, and a query call made while the flag was
\* false started none, whatever wraps the method carried.
C19_NoSpanWhileDisabled ==
  /\ \A s \in 1..Len(spans) : spans[s].startedEnabled
  /\ \A c \in 1..Len(calls) : ~calls[c].enabledAtCall => SpansOf(c) = {}

\* While the plugin was disabled, a query went through a wrapper that a
\* retained factory reference attached after the deactivation, and another
\* through a wrapper that an acquisition shim delivered after the
\* deactivation attached: neither started a span
C19_Witness ==
  /\ ~enabled
  /\ \E c \in 1..Len(calls) :
        /\ calls[c].object \in retained.madeDisabled
        /\ ~calls[c].enabledAtCall /\ calls[c].installed >= 1
        /\ SpansOf(c) = {}
  /\ \E c \in 1..Len(calls), a \in 1..Len(acqs) :
        /\ acqs[a].enabledAtCall /\ ShimmedAcquisition(a)
        /\ acqs[a].cbCalls = 1 /\ calls[c].object = acqs[a].delivered[2]
        /\ objs[calls[c].object].kind = "pooled"
        /\ ~calls[c].enabledAtCall /\ calls[c].installed >= 1
        /\ SpansOf(c) = {}
====
